---- MODULE Spec2Model ----
(***************************************************************************)
(* Model of the numerical engines of rust_math: struct Integral            *)
(* (src/src/integrals.rs) and struct Derivative (src/src/derivatives.rs).  *)
(*                                                                         *)
(* f64 values are modelled as exact rationals <<num, den>> in lowest terms *)
(* with den > 0: the arithmetic of the methods is carried out exactly, in  *)
(* the order the code carries it out.  Rounding of f64, NaN and infinities *)
(* are outside the model, so every equality below is an equality of the    *)
(* real numbers the code's expressions denote.                             *)
(*                                                                         *)
(* The caller owns one task at a time (the two structs share no data), so  *)
(* the state holds one task, which is either an Integral or a Derivative.  *)
(***************************************************************************)
EXTENDS Integers, Sequences, FiniteSets, TLC

(* ------------------------------ bounds -------------------------------- *)

\* bounds, points and steps supplied by the caller range over -MaxCoord..MaxCoord
MaxCoord == 2

\* largest interval count the quadrature loops are run with
MaxIntervals == 3

\* longest sequence of method calls on one task
MaxCalls == 3

(* ------------------------ exact arithmetic (f64) ---------------------- *)

Abs(n) == IF n < 0 THEN -n ELSE n

RECURSIVE Gcd(_, _)
Gcd(a, b) == IF b = 0 THEN a ELSE Gcd(b, a % b)

\* the rational n/d (d # 0) in lowest terms with a positive denominator
Rat(n, d) ==
    LET g == Gcd(Abs(n), Abs(d))
        s == IF d < 0 THEN -1 ELSE 1
    IN  << (s * n) \div g, (s * d) \div g >>

FromInt(i) == << i, 1 >>

Zero == FromInt(0)

RAdd(x, y) ==
    LET g == Gcd(x[2], y[2])
    IN  Rat(x[1] * (y[2] \div g) + y[1] * (x[2] \div g), (x[2] \div g) * y[2])

RNeg(x) == << -x[1], x[2] >>

RSub(x, y) == RAdd(x, RNeg(y))

RMul(x, y) ==
    LET a == Rat(x[1], y[2])
        b == Rat(y[1], x[2])
    IN  << a[1] * b[1], a[2] * b[2] >>

\* x / y for y # 0
RDiv(x, y) == RMul(x, Rat(y[2], y[1]))

RLt(x, y) == x[1] * y[2] < y[1] * x[2]

RAbs(x) == << Abs(x[1]), x[2] >>

(* ------------------------- the supplied functions --------------------- *)

\* the closures a caller boxes into a task
Functions == {"square", "ident", "one"}

\* (self.function)(x)
Apply(f, x) ==
    CASE f = "square" -> RMul(x, x)
      [] f = "ident"  -> x
      [] f = "one"    -> FromInt(1)

(* ------------------------------ Integral ------------------------------ *)

\* 1e6 as u64
DefaultNumIntervals == 1000000

\* IntegralNew, had it put the bounds in ascending order
IntegralNew_Ordered(function, lower_bound, upper_bound, num_intervals) ==
    [ kind          |-> "Integral",
      function      |-> function,
      lower_bound   |-> IF RLt(upper_bound, lower_bound) THEN upper_bound
                                                         ELSE lower_bound,
      upper_bound   |-> IF RLt(upper_bound, lower_bound) THEN lower_bound
                                                         ELSE upper_bound,
      num_intervals |-> IF num_intervals > 0 THEN num_intervals
                                             ELSE DefaultNumIntervals,
      result        |-> Zero ]

IntegralNew(function, lower_bound, upper_bound, num_intervals) ==
    [ kind          |-> "Integral",
      function      |-> function,
      lower_bound   |-> lower_bound,
      upper_bound   |-> upper_bound,
      num_intervals |-> IF num_intervals > 0 THEN num_intervals
                                             ELSE DefaultNumIntervals,
      result        |-> Zero ]

\* width of each slice of the interval
Width(self) ==
    RDiv(RSub(self.upper_bound, self.lower_bound), FromInt(self.num_intervals))

\* RiemannLoop, had it sampled the right edge of each slice
RECURSIVE RiemannLoop_RightEdge(_, _, _, _)
RiemannLoop_RightEdge(self, width, i, acc) ==
    IF i >= self.num_intervals THEN acc
    ELSE LET x_coordinate == RAdd(self.lower_bound, RMul(FromInt(i + 1), width))
         IN  RiemannLoop_RightEdge(self, width, i + 1,
                 [ result  |-> RAdd(acc.result,
                                    RMul(Apply(self.function, x_coordinate), width)),
                   samples |-> Append(acc.samples, x_coordinate) ])

\* RiemannLoop, had its range been 0..=num_intervals
RECURSIVE RiemannLoop_Inclusive(_, _, _, _)
RiemannLoop_Inclusive(self, width, i, acc) ==
    IF i > self.num_intervals THEN acc
    ELSE LET x_coordinate == RAdd(self.lower_bound, RMul(FromInt(i), width))
         IN  RiemannLoop_Inclusive(self, width, i + 1,
                 [ result  |-> RAdd(acc.result,
                                    RMul(Apply(self.function, x_coordinate), width)),
                   samples |-> Append(acc.samples, x_coordinate) ])

\* the body of the loop of riemann_integration for i, i+1, .. num_intervals-1,
\* started with acc = [result, samples]; samples lists the points the
\* function has been evaluated at, in order
RECURSIVE RiemannLoop(_, _, _, _)
RiemannLoop(self, width, i, acc) ==
    IF i >= self.num_intervals THEN acc
    ELSE LET x_coordinate == RAdd(self.lower_bound, RMul(FromInt(i), width))
         IN  RiemannLoop(self, width, i + 1,
                 [ result  |-> RAdd(acc.result,
                                    RMul(Apply(self.function, x_coordinate), width)),
                   samples |-> Append(acc.samples, x_coordinate) ])

\* RiemannIntegration, had it zeroed the stored result before the loop
RiemannIntegration_Reset(self) ==
    LET width == Width(self)
        acc   == RiemannLoop(self, width, 0,
                             [result |-> Zero, samples |-> << >>])
        done  == [self EXCEPT !.result = acc.result]
    IN  [ self |-> done, ret |-> done.result, samples |-> acc.samples ]

\* riemann_integration(&mut self): the task afterwards and the points sampled
RiemannIntegration(self) ==
    LET width == Width(self)
        acc   == RiemannLoop(self, width, 0,
                             [result |-> self.result, samples |-> << >>])
        done  == [self EXCEPT !.result = acc.result]
    IN  [ self |-> done, ret |-> done.result, samples |-> acc.samples ]

\* SimpsonLoop, had it evaluated a shared edge once: the value at x_coordinate
\* is evaluated for the first slice only
RECURSIVE SimpsonLoop_SharedEdges(_, _, _, _)
SimpsonLoop_SharedEdges(self, width, i, acc) ==
    IF i >= self.num_intervals THEN acc
    ELSE LET x_coordinate == RAdd(self.lower_bound, RMul(FromInt(i), width))
             x_next       == RAdd(x_coordinate, width)
             x_mid        == RDiv(RAdd(x_coordinate, x_next), FromInt(2))
         IN  SimpsonLoop_SharedEdges(self, width, i + 1,
                 [ result  |-> RAdd(acc.result,
                                 RAdd(RAdd(Apply(self.function, x_coordinate),
                                           RMul(FromInt(4), Apply(self.function, x_mid))),
                                      Apply(self.function, x_next))),
                   samples |-> acc.samples \o
                                  (IF i = 0 THEN << x_coordinate, x_mid, x_next >>
                                            ELSE << x_mid, x_next >>) ])

\* SimpsonLoop, had its last term been taken at x_coordinate
RECURSIVE SimpsonLoop_LeftTwice(_, _, _, _)
SimpsonLoop_LeftTwice(self, width, i, acc) ==
    IF i >= self.num_intervals THEN acc
    ELSE LET x_coordinate == RAdd(self.lower_bound, RMul(FromInt(i), width))
             x_next       == RAdd(x_coordinate, width)
             x_mid        == RDiv(RAdd(x_coordinate, x_next), FromInt(2))
         IN  SimpsonLoop_LeftTwice(self, width, i + 1,
                 [ result  |-> RAdd(acc.result,
                                 RAdd(RAdd(Apply(self.function, x_coordinate),
                                           RMul(FromInt(4), Apply(self.function, x_mid))),
                                      Apply(self.function, x_coordinate))),
                   samples |-> acc.samples \o << x_coordinate, x_mid, x_coordinate >> ])

\* the body of the loop of simpson_integration_one_third
RECURSIVE SimpsonLoop(_, _, _, _)
SimpsonLoop(self, width, i, acc) ==
    IF i >= self.num_intervals THEN acc
    ELSE LET x_coordinate == RAdd(self.lower_bound, RMul(FromInt(i), width))
             x_next       == RAdd(x_coordinate, width)
             x_mid        == RDiv(RAdd(x_coordinate, x_next), FromInt(2))
         IN  SimpsonLoop(self, width, i + 1,
                 [ result  |-> RAdd(acc.result,
                                 RAdd(RAdd(Apply(self.function, x_coordinate),
                                           RMul(FromInt(4), Apply(self.function, x_mid))),
                                      Apply(self.function, x_next))),
                   samples |-> acc.samples \o << x_coordinate, x_mid, x_next >> ])

\* SimpsonIntegrationOneThird, had it left out the last step
SimpsonIntegrationOneThird_NoScaling(self) ==
    LET width == Width(self)
        acc   == SimpsonLoop(self, width, 0,
                             [result |-> self.result, samples |-> << >>])
        done  == [self EXCEPT !.result = acc.result]
    IN  [ self |-> done, ret |-> done.result, samples |-> acc.samples ]

\* SimpsonIntegrationOneThird, had it returned the field as read before the
\* last step
SimpsonIntegrationOneThird_ReturnsSum(self) ==
    LET width == Width(self)
        acc   == SimpsonLoop(self, width, 0,
                             [result |-> self.result, samples |-> << >>])
        done  == [self EXCEPT !.result = RMul(acc.result, RDiv(width, FromInt(6)))]
    IN  [ self |-> done, ret |-> acc.result, samples |-> acc.samples ]

\* SimpsonIntegrationOneThird, had its last step multiplied by width / 3
SimpsonIntegrationOneThird_WidthOverThree(self) ==
    LET width == Width(self)
        acc   == SimpsonLoop(self, width, 0,
                             [result |-> self.result, samples |-> << >>])
        done  == [self EXCEPT !.result = RMul(acc.result, RDiv(width, FromInt(3)))]
    IN  [ self |-> done, ret |-> done.result, samples |-> acc.samples ]

\* simpson_integration_one_third(&mut self)
SimpsonIntegrationOneThird(self) ==
    LET width == Width(self)
        acc   == SimpsonLoop(self, width, 0,
                             [result |-> self.result, samples |-> << >>])
        done  == [self EXCEPT !.result = RMul(acc.result, RDiv(width, FromInt(6)))]
    IN  [ self |-> done, ret |-> done.result, samples |-> acc.samples ]

(* ----------------------------- Derivative ----------------------------- *)

\* 1e-6
DefaultIncrement == << 1, 1000000 >>

\* DerivativeNew, had it tested increment >= 0.0
DerivativeNew_NonNegative(function, x_coordinate, increment) ==
    [ kind         |-> "Derivative",
      function     |-> function,
      x_coordinate |-> x_coordinate,
      increment    |-> IF ~RLt(increment, Zero) THEN increment ELSE DefaultIncrement,
      result       |-> Zero ]

DerivativeNew(function, x_coordinate, increment) ==
    [ kind         |-> "Derivative",
      function     |-> function,
      x_coordinate |-> x_coordinate,
      increment    |-> IF RLt(Zero, increment) THEN increment ELSE DefaultIncrement,
      result       |-> Zero ]

get_result(self) == self.result

\* ForwardDifference, had it added the quotient to the stored result
ForwardDifference_Accumulates(self) ==
    LET x_plus == RAdd(self.x_coordinate, self.increment)
        done   == [self EXCEPT !.result =
                      RAdd(self.result,
                           RDiv(RSub(Apply(self.function, x_plus),
                                     Apply(self.function, self.x_coordinate)),
                                self.increment))]
    IN  [ self |-> done, ret |-> done.result,
          samples |-> << x_plus, self.x_coordinate >> ]

\* forward_difference(&mut self): the task afterwards and the points sampled
ForwardDifference(self) ==
    LET x_plus == RAdd(self.x_coordinate, self.increment)
        done   == [self EXCEPT !.result =
                      RDiv(RSub(Apply(self.function, x_plus),
                                Apply(self.function, self.x_coordinate)),
                           self.increment)]
    IN  [ self |-> done, ret |-> done.result,
          samples |-> << x_plus, self.x_coordinate >> ]

\* BackwardDifference, had it stored the negated step and stepped forward by it
BackwardDifference_NegatesStep(self) ==
    LET moved   == [self EXCEPT !.increment = RNeg(self.increment)]
        x_minus == RAdd(moved.x_coordinate, moved.increment)
        done    == [moved EXCEPT !.result =
                       RDiv(RSub(Apply(moved.function, x_minus),
                                 Apply(moved.function, moved.x_coordinate)),
                            moved.increment)]
    IN  [ self |-> done, ret |-> done.result,
          samples |-> << self.x_coordinate, x_minus >> ]

\* backward_difference(&mut self)
BackwardDifference(self) ==
    LET x_minus == RSub(self.x_coordinate, self.increment)
        done    == [self EXCEPT !.result =
                       RDiv(RSub(Apply(self.function, self.x_coordinate),
                                 Apply(self.function, x_minus)),
                            self.increment)]
    IN  [ self |-> done, ret |-> done.result,
          samples |-> << self.x_coordinate, x_minus >> ]

\* CentralDifference, had it divided by half_increment
CentralDifference_HalfStep(self) ==
    LET half_increment == RDiv(self.increment, FromInt(2))
        x_plus         == RAdd(self.x_coordinate, half_increment)
        x_minus        == RSub(self.x_coordinate, half_increment)
        done           == [self EXCEPT !.result =
                              RDiv(RSub(Apply(self.function, x_plus),
                                        Apply(self.function, x_minus)),
                                   half_increment)]
    IN  [ self |-> done, ret |-> done.result, samples |-> << x_plus, x_minus >> ]

\* central_difference(&mut self)
CentralDifference(self) ==
    LET half_increment == RDiv(self.increment, FromInt(2))
        x_plus         == RAdd(self.x_coordinate, half_increment)
        x_minus        == RSub(self.x_coordinate, half_increment)
        done           == [self EXCEPT !.result =
                              RDiv(RSub(Apply(self.function, x_plus),
                                        Apply(self.function, x_minus)),
                                   self.increment)]
    IN  [ self |-> done, ret |-> done.result, samples |-> << x_plus, x_minus >> ]

(* ------------------------------- state -------------------------------- *)

VARIABLES
    task,    \* the struct the caller holds: an Integral or a Derivative
    args,    \* the arguments its constructor was called with
    calls,   \* the methods called on it since construction, oldest first
    rets,    \* the value each of those calls returned
    samples  \* the points each of those calls evaluated the function at

vars == << task, args, calls, rets, samples >>

\* the reals a caller supplies as bound, point or step
Coords == { FromInt(i) : i \in (-MaxCoord)..MaxCoord } \cup { << 1, 2 >> }

\* the interval counts a caller supplies
Counts == 0..MaxIntervals

IntegralArgs ==
    [ kind : {"Integral"}, function : Functions,
      lower_bound : Coords, upper_bound : Coords, num_intervals : Counts ]

DerivativeArgs ==
    [ kind : {"Derivative"}, function : Functions,
      x_coordinate : Coords, increment : Coords ]

Construct(a) ==
    IF a.kind = "Integral"
    THEN IntegralNew(a.function, a.lower_bound, a.upper_bound, a.num_intervals)
    ELSE DerivativeNew(a.function, a.x_coordinate, a.increment)

Init ==
    /\ args \in IntegralArgs \cup DerivativeArgs
    /\ task = Construct(args)
    /\ calls = << >>
    /\ rets = << >>
    /\ samples = << >>

\* let mut integral = Integral::new(..): the caller replaces its task
NewIntegral ==
    /\ \E a \in IntegralArgs :
          /\ args' = a
          /\ task' = Construct(a)
    /\ calls' = << >>
    /\ rets' = << >>
    /\ samples' = << >>

\* let mut derivative = Derivative::new(..)
NewDerivative ==
    /\ \E a \in DerivativeArgs :
          /\ args' = a
          /\ task' = Construct(a)
    /\ calls' = << >>
    /\ rets' = << >>
    /\ samples' = << >>

\* the quadrature loops are run for at most MaxIntervals iterations
CanIntegrate ==
    /\ task.kind = "Integral"
    /\ task.num_intervals <= MaxIntervals
    /\ Len(calls) < MaxCalls

\* the squares of coordinates with the default step 1e-6 exceed the
\* integers of the checker, so the default step is run with the linear functions
CanDifferentiate ==
    /\ task.kind = "Derivative"
    /\ (task.increment = DefaultIncrement => task.function # "square")
    /\ Len(calls) < MaxCalls

\* one method call by the caller: r is the method's outcome, the task as the
\* method leaves it, the value it returns and the points it sampled
Called(name, r) ==
    /\ task' = r.self
    /\ rets' = Append(rets, r.ret)
    /\ samples' = Append(samples, r.samples)
    /\ calls' = Append(calls, name)
    /\ UNCHANGED args

Riemann == CanIntegrate /\ Called("riemann", RiemannIntegration(task))

Simpson == CanIntegrate /\ Called("simpson", SimpsonIntegrationOneThird(task))

Forward == CanDifferentiate /\ Called("forward", ForwardDifference(task))

Backward == CanDifferentiate /\ Called("backward", BackwardDifference(task))

Central == CanDifferentiate /\ Called("central", CentralDifference(task))

Next ==
    \/ NewIntegral
    \/ NewDerivative
    \/ Riemann
    \/ Simpson
    \/ Forward
    \/ Backward
    \/ Central

Spec == Init /\ [][Next]_vars

(* ------------------------------- claims ------------------------------- *)

\* the value 2 * x
Double(x) == RMul(FromInt(2), x)

\* an Integral on which exactly the methods ms have been called, in order
IntegralAfter(ms) == task.kind = "Integral" /\ calls = ms

\* C1: on a fresh Integral, the second of two simpson_integration_one_third
\* calls in a row returns, and leaves stored, exactly double what the first
\* call returned.
C1_SimpsonTwiceDoubles ==
    IntegralAfter(<< "simpson", "simpson" >>) =>
        /\ rets[2] = Double(rets[1])
        /\ task.result = rets[2]

Reversed == task.kind = "Integral" /\ RLt(task.upper_bound, task.lower_bound)

\* the fresh Integral over the same interval taken in ascending order, (f, a, b, n)
Ascending ==
    IntegralNew(task.function, task.upper_bound, task.lower_bound, task.num_intervals)

\* f(b) - f(a) for the bounds a < b of a reversed Integral
EdgeDifference ==
    RSub(Apply(task.function, task.lower_bound), Apply(task.function, task.upper_bound))

\* C3 as stated: riemann_integration on a fresh (f, b, a, n) with a < b returns
\* the negative of what it returns on a fresh (f, a, b, n).
C3_RiemannSignFlip ==
    (Reversed /\ calls = << "riemann" >>) =>
        rets[1] = RNeg(RiemannIntegration(Ascending).ret)

\* C3 as amended: riemann_integration on a fresh (f, b, a, n) with a < b
\* returns the negative of the right-rectangle sum over [a, b], which is
\* -(R + (f(b) - f(a)) * (b - a) / n) for the value R it returns on a fresh
\* (f, a, b, n); it is the negative of R exactly when f(a) = f(b).
C3_RiemannReversedIsRightSum ==
    (Reversed /\ calls = << "riemann" >>) =>
        LET R == RiemannIntegration(Ascending).ret
        IN  /\ rets[1] = RNeg(RAdd(R, RMul(EdgeDifference, Width(Ascending))))
            /\ (rets[1] = RNeg(R)) <=> (EdgeDifference = Zero)

C3_Witness ==
    /\ Reversed
    /\ calls = << "riemann" >>
    /\ task.num_intervals > 1
    /\ EdgeDifference # Zero

Tolerance == << 1, 100000 >>

C6_DerivativeNewFallback ==
    task.kind = "Derivative" =>
        /\ (~RLt(Zero, args.increment) => task.increment = << 1, 1000000 >>)
        /\ (RLt(Zero, args.increment) => task.increment = args.increment)
        /\ RLt(Zero, task.increment)
        /\ (calls = << >> => get_result(task) = Zero)

C6_Witness ==
    /\ task.kind = "Derivative"
    /\ calls = << >>
    /\ args.increment = Zero
    /\ task.increment = DefaultIncrement

\* C7: Integral::new always yields a task: a supplied interval count of 0 is
\* replaced by 1,000,000, a count >= 1 is kept as supplied, so the stored
\* count is >= 1; the bounds are stored as given, in either order; the stored
\* result starts at 0.
C7_IntegralNewFallback ==
    task.kind = "Integral" =>
        /\ (args.num_intervals = 0 => task.num_intervals = 1000000)
        /\ (args.num_intervals >= 1 => task.num_intervals = args.num_intervals)
        /\ task.num_intervals >= 1
        /\ task.lower_bound = args.lower_bound
        /\ task.upper_bound = args.upper_bound
        /\ (calls = << >> => task.result = Zero)

C7_Witness ==
    /\ task.kind = "Integral"
    /\ calls = << >>
    /\ args.num_intervals = 0
    /\ RLt(args.upper_bound, args.lower_bound)

\* the left edge a_i = lower + i * width of sub-interval i
LeftEdge(lower, width, i) == RAdd(lower, RMul(FromInt(i), width))

\* the sum over i = 0..k-1 of f(a_i) * width
RECURSIVE LeftRectangleSum(_, _, _, _)
LeftRectangleSum(f, lower, width, k) ==
    IF k = 0 THEN Zero
    ELSE RAdd(LeftRectangleSum(f, lower, width, k - 1),
              RMul(Apply(f, LeftEdge(lower, width, k - 1)), width))

\* C8: on a fresh Integral, riemann_integration returns the left-rectangle
\* sum, the sum over i = 0..n-1 of f(lower + i*width) * width with the signed
\* width (upper - lower) / n; f is sampled at the n left edges only, and never
\* at upper when lower # upper.
C8_RiemannIsLeftRectangleSum ==
    IntegralAfter(<< "riemann" >>) =>
        LET n     == task.num_intervals
            width == RDiv(RSub(task.upper_bound, task.lower_bound), FromInt(n))
        IN  /\ rets[1] = LeftRectangleSum(task.function, task.lower_bound, width, n)
            /\ samples[1] = [ j \in 1..n |-> LeftEdge(task.lower_bound, width, j - 1) ]
            /\ (task.lower_bound # task.upper_bound =>
                   \A j \in 1..Len(samples[1]) : samples[1][j] # task.upper_bound)

C8_Witness ==
    /\ IntegralAfter(<< "riemann" >>)
    /\ task.num_intervals > 1
    /\ task.lower_bound # task.upper_bound
    /\ rets[1] # Zero

\* the sum over i = 0..k-1 of f(a_i) + 4*f(m_i) + f(a_i + width), m_i = a_i + width/2
RECURSIVE SimpsonSum(_, _, _, _)
SimpsonSum(f, lower, width, k) ==
    IF k = 0 THEN Zero
    ELSE LET a_i == LeftEdge(lower, width, k - 1)
             m_i == RAdd(a_i, RDiv(width, FromInt(2)))
         IN  RAdd(SimpsonSum(f, lower, width, k - 1),
                  RAdd(Apply(f, a_i),
                       RAdd(RMul(FromInt(4), Apply(f, m_i)),
                            Apply(f, RAdd(a_i, width)))))

\* C9: on a fresh Integral, simpson_integration_one_third returns width/6
\* times the sum over i = 0..n-1 of f(a_i) + 4*f(m_i) + f(a_i + width), the
\* factor width/6 being applied once to the whole sum.
C9_SimpsonIsScaledSum ==
    IntegralAfter(<< "simpson" >>) =>
        LET n     == task.num_intervals
            width == RDiv(RSub(task.upper_bound, task.lower_bound), FromInt(n))
        IN  rets[1] = RMul(RDiv(width, FromInt(6)),
                           SimpsonSum(task.function, task.lower_bound, width, n))

C9_Witness ==
    /\ IntegralAfter(<< "simpson" >>)
    /\ task.num_intervals > 1
    /\ rets[1] # Zero

\* the difference quotient (f(p) - f(q)) / h
Quotient(f, p, q, h) == RDiv(RSub(Apply(f, p), Apply(f, q)), h)

\* C10: each differencing method returns the difference quotient of its own
\* stencil over the stored step h: forward (f(x0 + h) - f(x0)) / h, backward
\* (f(x0) - f(x0 - h)) / h, central (f(x0 + h/2) - f(x0 - h/2)) / h.
C10_StencilQuotients ==
    (task.kind = "Derivative" /\ calls # << >>) =>
        LET k    == Len(calls)
            f    == task.function
            x0   == task.x_coordinate
            h    == task.increment
            half == RDiv(h, FromInt(2))
        IN  /\ calls[k] = "forward" =>
                   rets[k] = Quotient(f, RAdd(x0, h), x0, h)
            /\ calls[k] = "backward" =>
                   rets[k] = Quotient(f, x0, RSub(x0, h), h)
            /\ calls[k] = "central" =>
                   rets[k] = Quotient(f, RAdd(x0, half), RSub(x0, half), h)

C10_Witness ==
    /\ task.kind = "Derivative"
    /\ calls = << "forward", "backward", "central" >>
    /\ rets[3] # Zero
    /\ rets[1] # rets[2]

\* C11: immediately after any call of a differencing or quadrature method,
\* after any sequence of earlier calls, the task's stored result equals the
\* value that call returned.
C11_ReturnAndStoredInSync ==
    calls # << >> => task.result = rets[Len(rets)]

C11_Witness ==
    /\ Len(calls) = 3
    /\ task.kind = "Integral"
    /\ calls[3] = "simpson"
    /\ task.num_intervals > 1
    /\ task.result # Zero
    /\ rets[3] # rets[2]

\* the value of the stencil of method m for function f, point x0 and step h
StencilValue(m, f, x0, h) ==
    LET half == RDiv(h, FromInt(2))
    IN  CASE m = "forward"  -> Quotient(f, RAdd(x0, h), x0, h)
          [] m = "backward" -> Quotient(f, x0, RSub(x0, h), h)
          [] m = "central"  -> Quotient(f, RAdd(x0, half), RSub(x0, half), h)

\* C12: the Derivative's stored result is overwritten, never accumulated:
\* get_result is 0 before the first call, and after any sequence of calls it
\* is the stencil value of the most recent method, which depends only on
\* (f, x0, h); every call returns its own stencil value whatever came before,
\* so a repeated method returns the same value again.
C12_DerivativeResultOverwritten ==
    task.kind = "Derivative" =>
        /\ calls = << >> => get_result(task) = Zero
        /\ calls # << >> =>
              get_result(task) = StencilValue(calls[Len(calls)], task.function,
                                              task.x_coordinate, task.increment)
        /\ \A i \in 1..Len(calls) :
              rets[i] = StencilValue(calls[i], task.function,
                                     task.x_coordinate, task.increment)
        /\ \A i, j \in 1..Len(calls) : calls[i] = calls[j] => rets[i] = rets[j]

C12_Witness ==
    /\ task.kind = "Derivative"
    /\ calls = << "forward", "forward", "backward" >>
    /\ rets[1] = rets[2]
    /\ rets[1] # Zero
    /\ rets[3] # rets[2]
    /\ get_result(task) = rets[3]

\* the number of positions of the sequence s that hold the value v
Occurrences(s, v) == Cardinality({ j \in 1..Len(s) : s[j] = v })

\* C13: every call evaluates the function a fixed number of times: a
\* differencing method twice, riemann_integration once in each of its
\* interval_count iterations, simpson_integration_one_third three times in
\* each of its interval_count iterations, at the left edge, the midpoint and
\* the right edge of the slice, so that an interior edge of the grid is
\* evaluated twice and the two outer bounds once.
C13_EvaluationCounts ==
    \A k \in 1..Len(calls) :
        LET n     == task.num_intervals
            width == RDiv(RSub(task.upper_bound, task.lower_bound), FromInt(n))
            edge(j) == LeftEdge(task.lower_bound, width, j)
        IN  /\ calls[k] \in {"forward", "backward", "central"} =>
                  Len(samples[k]) = 2
            /\ calls[k] = "riemann" => Len(samples[k]) = n
            /\ calls[k] = "simpson" =>
                  /\ Len(samples[k]) = 3 * n
                  /\ \A i \in 0..(n - 1) :
                        /\ samples[k][3 * i + 1] = edge(i)
                        /\ samples[k][3 * i + 3] = edge(i + 1)
                        /\ samples[k][3 * i + 2] \notin {edge(j) : j \in 0..n}
                              \/ task.lower_bound = task.upper_bound
                  /\ task.lower_bound # task.upper_bound =>
                        /\ Occurrences(samples[k], task.lower_bound) = 1
                        /\ Occurrences(samples[k], task.upper_bound) = 1
                        /\ \A j \in 1..(n - 1) :
                              Occurrences(samples[k], edge(j)) = 2

C13_Witness ==
    /\ task.kind = "Integral"
    /\ calls = << "riemann", "simpson", "simpson" >>
    /\ task.num_intervals = MaxIntervals
    /\ task.lower_bound # task.upper_bound
    /\ Len(samples[3]) = 3 * MaxIntervals

\* C14: no method changes its task's configuration: after any sequence of
\* calls the function, point and step of a Derivative, and the function,
\* bounds and interval count of an Integral, are those of construction, only
\* the stored result differs; so step > 0 and interval count >= 1 throughout.
C14_ConfigurationUnchanged ==
    /\ task = [Construct(args) EXCEPT !.result = task.result]
    /\ task.kind = "Derivative" => RLt(Zero, task.increment)
    /\ task.kind = "Integral" => task.num_intervals >= 1

C14_Witness ==
    /\ task.kind = "Derivative"
    /\ calls = << "forward", "backward", "central" >>
    /\ task.result # Zero
    /\ task.increment = args.increment

\* C15: on an Integral with lower_bound = upper_bound, every quadrature call
\* returns 0 and the stored result stays 0 after any number of calls.
C15_DegenerateIntervalIsZero ==
    (task.kind = "Integral" /\ task.lower_bound = task.upper_bound) =>
        /\ task.result = Zero
        /\ \A k \in 1..Len(rets) : rets[k] = Zero

C15_Witness ==
    /\ task.kind = "Integral"
    /\ task.lower_bound = task.upper_bound
    /\ calls = << "riemann", "simpson", "riemann" >>
    /\ task.num_intervals > 1
    /\ Apply(task.function, task.lower_bound) # Zero
    /\ task.result = Zero

====
